---- MODULE Spec2Model ----
(***************************************************************************)
(* Model of server/database/utils.ts: the validators/activity/scores store *)
(* helpers (getMissingValidators, storeValidator, getActivityByValidator,  *)
(* getMissingEpochs, storeActivities, storeScores).                        *)
(*                                                                         *)
(* The three tables are sets of rows.  The schema file is not part of the  *)
(* sources at hand; its constraints (unique validators.address, primary    *)
(* key (epochBlockNumber, validatorId) on activity, one score row per      *)
(* validatorId, ids assigned by the store) are taken from the data model   *)
(* of the specification.  Every awaited store statement can fail; a failed *)
(* statement has no effect and its error propagates out of the helper.     *)
(***************************************************************************)
EXTENDS Integers, Sequences, FiniteSets, TLC

VARIABLES
  tblValidators,  \* rows [id, address] of the validators table
  tblActivity,    \* rows [epochBlockNumber, validatorId, assigned, missed]
  tblScores,      \* rows [validatorId, value]
  validators,     \* the module-level Map address -> id (the cache)
  last,           \* the most recent call and its outcome
  base,           \* history: the store before a run of aborted calls
  latest,         \* history: the scores most recently submitted per validator
  pc, local       \* concurrent storeValidator calls: position and locals

vars == <<tblValidators, tblActivity, tblScores, validators, last, base, latest,
          pc, local>>

(***************************************************************************)
(* Bounds of the model.                                                    *)
(***************************************************************************)
MaxEpoch == 8
MaxStride == 2

(* chunkArray(values, 16) *)
ChunkSize == 16

Addresses == {"addrA", "addrB"}
Epochs == 0..MaxEpoch

(***************************************************************************)
(* Generic helpers.                                                        *)
(***************************************************************************)
Min(a, b) == IF a < b THEN a ELSE b

SetMin(S) == CHOOSE x \in S : \A y \in S : x <= y

SetMax(S) == CHOOSE x \in S : \A y \in S : y <= x

RECURSIVE SortedSeq(_)
SortedSeq(S) == IF S = {} THEN << >>
                ELSE <<SetMin(S)>> \o SortedSeq(S \ {SetMin(S)})

Range(s) == {s[i] : i \in 1..Len(s)}

RECURSIVE FilterSeq(_, _)
(* Array.prototype.filter with the test "element is a member of keep" *)
FilterSeq(s, keep) ==
  IF s = << >> THEN << >>
  ELSE (IF Head(s) \in keep THEN <<Head(s)>> ELSE << >>) \o FilterSeq(Tail(s), keep)

(***************************************************************************)
(* The store: statements on the three tables.                              *)
(***************************************************************************)
NoError == "none"
StoreError == "store error"
ConstraintError == "constraint violation"

(* select id from validators where address = ? ; undefined is modelled as 0,
   which is falsy like undefined in `if (validatorId)` *)
SelectValidatorId(tv, address) ==
  IF \E r \in tv : r.address = address
  THEN (CHOOSE r \in tv : r.address = address).id
  ELSE 0

(* the id the store assigns to a new validators row *)
NewValidatorId(tv) == IF tv = {} THEN 1 ELSE SetMax({r.id : r \in tv}) + 1

(* unique constraint on validators.address *)
AddressTaken(tv, address) == \E r \in tv : r.address = address

(* the insert replacing the table: the rows there were are lost *)
InsertValidatorRowReplacing(tv, address) ==
  {[id |-> NewValidatorId(tv), address |-> address]}

InsertValidatorRow(tv, address) ==
  tv \cup {[id |-> NewValidatorId(tv), address |-> address]}

(* the where clause left out: every activity row is deleted *)
DeleteActivityRowsAll(ta, blockNumbers) == {}

(* the delete left out: nothing is removed *)
DeleteActivityRowsNone(ta, blockNumbers) == ta

(* delete from activity where epochBlockNumber in blockNumbers *)
DeleteActivityRows(ta, blockNumbers) ==
  {r \in ta : r.epochBlockNumber \notin Range(blockNumbers)}

ActivityKey(r) == <<r.epochBlockNumber, r.validatorId>>

(* primary key (epochBlockNumber, validatorId) of activity: a multi-row
   insert is rejected as a whole when a key is taken or repeated *)
ActivityKeysFree(ta, chunk) ==
  /\ \A i \in 1..Len(chunk) : \A r \in ta : ActivityKey(r) # ActivityKey(chunk[i])
  /\ \A i, j \in 1..Len(chunk) : i # j => ActivityKey(chunk[i]) # ActivityKey(chunk[j])

InsertActivityRows(ta, chunk) == ta \cup Range(chunk)

(* the where clause left out: every score row is deleted *)
DeleteScoreRowsAll(ts, ids) == {}

(* delete from scores where (or of validatorId = ? over the list); or() of
   no condition is undefined and where(undefined) filters nothing *)
DeleteScoreRows(ts, ids) ==
  IF ids = << >> THEN {} ELSE {r \in ts : r.validatorId \notin Range(ids)}

(* one score row per validatorId *)
ScoreKeysFree(ts, scores) ==
  /\ \A i \in 1..Len(scores) : \A r \in ts : r.validatorId # scores[i].validatorId
  /\ \A i, j \in 1..Len(scores) : i # j => scores[i].validatorId # scores[j].validatorId

InsertScoreRows(ts, scores) == ts \cup Range(scores)

(***************************************************************************)
(* The in-memory cache `validators` (a Map address -> id), as a set of     *)
(* entries with one entry per address.                                     *)
(***************************************************************************)
CacheHas(c, address) == \E e \in c : e.address = address

(* the key ignored: the id of some entry, whatever its address *)
CacheGetAny(c, address) == (CHOOSE e \in c : TRUE).id

CacheGet(c, address) == (CHOOSE e \in c : e.address = address).id

CacheSet(c, address, id) ==
  {e \in c : e.address # address} \cup {[address |-> address, id |-> id]}

(***************************************************************************)
(* Injected statement failures.  `at` names the statement of the helper    *)
(* that fails, `n` the loop index (value or chunk) at which it fails.      *)
(***************************************************************************)
NoFail == [at |-> "none", n |-> 0]

FailAt(at, n) == [at |-> at, n |-> n]

(***************************************************************************)
(* storeValidator, run to its end.  f is "none", "select" (the lookup      *)
(* fails) or "insert" (icon generation or the insert fails).  stmts lists  *)
(* the store statements the call issued, in order.                         *)
(***************************************************************************)
SelValidators == "select validators"
InsValidators == "insert validators"
SelActivity == "select activity"
DelActivity == "delete activity"
InsActivity == "insert activity"
DelScores == "delete scores"
InsScores == "insert scores"

(* the insert left out: an id is handed out and cached, no row is written *)
storeValidatorUnsaved(tv, c, address, f) ==
  IF CacheHas(c, address)
  THEN [tv |-> tv, cache |-> c, id |-> CacheGet(c, address), err |-> NoError,
        stmts |-> << >>]
  ELSE [tv |-> tv, cache |-> CacheSet(c, address, NewValidatorId(tv)),
        id |-> NewValidatorId(tv), err |-> NoError, stmts |-> <<SelValidators>>]

storeValidator(tv, c, address, f) ==
  IF CacheHas(c, address)
  THEN [tv |-> tv, cache |-> c, id |-> CacheGet(c, address), err |-> NoError,
        stmts |-> << >>]
  ELSE IF f = "select"
  THEN [tv |-> tv, cache |-> c, id |-> 0, err |-> StoreError,
        stmts |-> <<SelValidators>>]
  ELSE LET validatorId == SelectValidatorId(tv, address) IN
       IF validatorId # 0
       THEN [tv |-> tv, cache |-> CacheSet(c, address, validatorId),
             id |-> validatorId, err |-> NoError, stmts |-> <<SelValidators>>]
       ELSE IF f = "insert"
       THEN [tv |-> tv, cache |-> c, id |-> 0, err |-> StoreError,
             stmts |-> <<SelValidators, InsValidators>>]
       ELSE IF AddressTaken(tv, address)
       THEN [tv |-> tv, cache |-> c, id |-> 0, err |-> ConstraintError,
             stmts |-> <<SelValidators, InsValidators>>]
       ELSE [tv |-> InsertValidatorRow(tv, address),
             cache |-> CacheSet(c, address, NewValidatorId(tv)),
             id |-> NewValidatorId(tv), err |-> NoError,
             stmts |-> <<SelValidators, InsValidators>>]

(***************************************************************************)
(* storeActivities.  An EpochActivity object is a sequence of              *)
(* [epochBlockNumber, list] pairs with ascending keys, the order in which  *)
(* Object.keys enumerates integer keys.                                    *)
(***************************************************************************)
Keys(activities) == [i \in 1..Len(activities) |-> activities[i].epochBlockNumber]

RECURSIVE Flatten(_)
(* the (epochBlockNumber, entry) pairs in the order of the two nested loops *)
Flatten(activities) ==
  IF activities = << >> THEN << >>
  ELSE [i \in 1..Len(Head(activities).list) |->
          [epochBlockNumber |-> Head(activities).epochBlockNumber,
           validator |-> Head(activities).list[i].validator,
           assigned |-> Head(activities).list[i].assigned,
           missed |-> Head(activities).list[i].missed]]
       \o Flatten(Tail(activities))

RECURSIVE ResolveValues(_, _, _, _)
(* the loop that fills `values`, resolving each validator in turn *)
ResolveValues(entries, i, st, fail) ==
  IF i > Len(entries) THEN st
  ELSE LET f == IF fail.n = i /\ fail.at \in {"select", "insert"}
                THEN fail.at ELSE "none"
           r == storeValidator(st.tv, st.cache, entries[i].validator, f)
       IN IF r.err # NoError
          THEN [st EXCEPT !.err = r.err, !.stmts = st.stmts \o r.stmts]
          ELSE ResolveValues(entries, i + 1,
                 [tv |-> r.tv, cache |-> r.cache, err |-> NoError,
                  stmts |-> st.stmts \o r.stmts,
                  values |-> Append(st.values,
                     [assigned |-> entries[i].assigned,
                      missed |-> entries[i].missed,
                      epochBlockNumber |-> entries[i].epochBlockNumber,
                      validatorId |-> r.id])],
                 fail)

chunkArray(arr, chunkSize) ==
  [i \in 1..((Len(arr) + chunkSize - 1) \div chunkSize) |->
     SubSeq(arr, (i - 1) * chunkSize + 1, Min(i * chunkSize, Len(arr)))]

RECURSIVE InsertChunks(_, _, _, _)
(* for (const chunk of chunks) await insert(chunk) *)
InsertChunks(ta, chunks, k, fail) ==
  IF k > Len(chunks) THEN [ta |-> ta, err |-> NoError, stmts |-> << >>]
  ELSE IF fail.at = "insertChunk" /\ fail.n = k
  THEN [ta |-> ta, err |-> StoreError, stmts |-> <<InsActivity>>]
  ELSE IF ~ActivityKeysFree(ta, chunks[k])
  THEN [ta |-> ta, err |-> ConstraintError, stmts |-> <<InsActivity>>]
  ELSE LET rest == InsertChunks(InsertActivityRows(ta, chunks[k]), chunks, k + 1, fail)
       IN [rest EXCEPT !.stmts = <<InsActivity>> \o rest.stmts]

storeActivities(tv, ta, c, activities, fail) ==
  LET blockNumbers == Keys(activities)
      res == ResolveValues(Flatten(activities), 1,
               [tv |-> tv, cache |-> c, err |-> NoError, stmts |-> << >>,
                values |-> << >>], fail)
  IN IF res.err # NoError
     THEN [tv |-> res.tv, ta |-> ta, cache |-> res.cache, err |-> res.err,
           stmts |-> res.stmts]
     ELSE IF fail.at = "delete"
     THEN [tv |-> res.tv, ta |-> ta, cache |-> res.cache, err |-> StoreError,
           stmts |-> Append(res.stmts, DelActivity)]
     ELSE LET ins == InsertChunks(DeleteActivityRows(ta, blockNumbers),
                                  chunkArray(res.values, ChunkSize), 1, fail)
          IN [tv |-> res.tv, ta |-> ins.ta, cache |-> res.cache, err |-> ins.err,
              stmts |-> Append(res.stmts, DelActivity) \o ins.stmts]

(***************************************************************************)
(* storeScores: delete, then one insert of the whole list; values([])      *)
(* throws while the insert is built, after the delete has run.             *)
(***************************************************************************)
EmptyValuesError == "values() must be called with at least one value"

storeScores(ts, scores, fail) ==
  IF fail.at = "delete"
  THEN [ts |-> ts, err |-> StoreError, stmts |-> <<DelScores>>]
  ELSE LET del == DeleteScoreRows(ts, [i \in 1..Len(scores) |-> scores[i].validatorId])
       IN IF scores = << >>
          THEN [ts |-> del, err |-> EmptyValuesError, stmts |-> <<DelScores>>]
          ELSE IF fail.at = "insert"
          THEN [ts |-> del, err |-> StoreError, stmts |-> <<DelScores, InsScores>>]
          ELSE IF ~ScoreKeysFree(del, scores)
          THEN [ts |-> del, err |-> ConstraintError, stmts |-> <<DelScores, InsScores>>]
          ELSE [ts |-> InsertScoreRows(del, scores), err |-> NoError,
                stmts |-> <<DelScores, InsScores>>]

(***************************************************************************)
(* The read helpers.                                                       *)
(***************************************************************************)
(* the filter inverted (!== -1): the addresses that do have a row *)
getExistingValidators(tv, addresses) ==
  FilterSeq(addresses, {r.address : r \in tv} \cap Range(addresses))

(* addresses.filter(a => existingAddresses.indexOf(a) === -1) *)
getMissingValidators(tv, addresses) ==
  LET existingAddresses == {r.address : r \in tv} \cap Range(addresses)
  IN FilterSeq(addresses, Range(addresses) \ existingAddresses)

RECURSIVE MissingFromExclusive(_, _, _, _)
(* the loop with i < toEpoch: the last boundary is never looked at *)
MissingFromExclusive(existingEpochs, i, toEpoch, blocksPerEpoch) ==
  IF i >= toEpoch THEN << >>
  ELSE (IF i \notin existingEpochs THEN <<i>> ELSE << >>)
       \o MissingFromExclusive(existingEpochs, i + blocksPerEpoch, toEpoch, blocksPerEpoch)

RECURSIVE MissingFrom(_, _, _, _)
(* for (let i = fromEpoch; i <= toEpoch; i += blocksPerEpoch) *)
MissingFrom(existingEpochs, i, toEpoch, blocksPerEpoch) ==
  IF i > toEpoch THEN << >>
  ELSE (IF i \notin existingEpochs THEN <<i>> ELSE << >>)
       \o MissingFrom(existingEpochs, i + blocksPerEpoch, toEpoch, blocksPerEpoch)

getMissingEpochs(ta, range) ==
  LET existingEpochs ==
        {r.epochBlockNumber : r \in {x \in ta : /\ x.epochBlockNumber >= range.fromEpoch
                                                /\ x.epochBlockNumber <= range.toEpoch}}
  IN MissingFrom(existingEpochs, range.fromEpoch, range.toEpoch, range.blocksPerEpoch)

MissingValidatorsError == "Missing validators"
MissingEpochsError == "Missing epochs"
NoBalanceError == "No balance for validator"

RowBefore(x, y) ==
  \/ x.blockNumber < y.blockNumber
  \/ x.blockNumber = y.blockNumber /\ x.validatorId < y.validatorId

RECURSIVE RowsAscending(_)
RowsAscending(S) ==
  IF S = {} THEN << >>
  ELSE LET x == CHOOSE x \in S : \A y \in S \ {x} : RowBefore(x, y)
       IN <<x>> \o RowsAscending(S \ {x})

Reverse(s) == [i \in 1..Len(s) |-> s[Len(s) + 1 - i]]

(* the select of activity joined with validators; it has no ORDER BY, the
   order of its rows is the engine's: ascending or descending here *)
SelectActivities(tv, ta, addresses, range, ord) ==
  LET rows == {[blockNumber |-> a.epochBlockNumber, address |-> v.address,
                validatorId |-> v.id] :
                 <<a, v>> \in {p \in ta \X tv :
                    /\ p[1].validatorId = p[2].id
                    /\ p[1].epochBlockNumber <= range.toEpoch
                    /\ p[1].epochBlockNumber >= range.fromEpoch
                    /\ p[2].address \in Range(addresses)}}
  IN IF ord = "asc" THEN RowsAscending(rows) ELSE Reverse(RowsAscending(rows))

(* validators.find(v => v.address === address)?.balance; undefined is 0 *)
FindBalance(vals, address) ==
  IF \E i \in 1..Len(vals) : vals[i].address = address
  THEN vals[SetMin({i \in 1..Len(vals) : vals[i].address = address})].balance
  ELSE 0

RECURSIVE ReduceActivities(_, _, _, _)
(* activities.reduce(...): acc is the set of views built so far *)
ReduceActivities(activities, k, vals, acc) ==
  IF k > Len(activities) THEN [err |-> NoError, ret |-> acc, who |-> ""]
  ELSE LET activity == activities[k]
           balance == FindBalance(vals, activity.address)
       IN IF balance = 0
          THEN [err |-> NoBalanceError, ret |-> {}, who |-> activity.address]
          ELSE LET cur == IF \E w \in acc : w.address = activity.address
                          THEN CHOOSE w \in acc : w.address = activity.address
                          ELSE [address |-> activity.address,
                                validatorId |-> activity.validatorId,
                                balance |-> balance,
                                activeEpochBlockNumbers |-> << >>]
                   upd == [cur EXCEPT !.activeEpochBlockNumbers =
                                         Append(@, activity.blockNumber)]
               IN ReduceActivities(activities, k + 1, vals,
                     {w \in acc : w.address # activity.address} \cup {upd})

(* the guard left out: the error is never thrown *)
ThrowsNever(missing) == FALSE

(* if (missingValidators.length > 0) throw *)
ThrowsMissingValidators(missingValidators) == Len(missingValidators) > 0

(* the guard with > 1: a single missing epoch goes unnoticed *)
ThrowsIfSeveral(missing) == Len(missing) > 1

(* if (missingEpochs.length > 0) throw *)
ThrowsMissingEpochs(missingEpochs) == Len(missingEpochs) > 0

getActivityByValidator(tv, ta, vals, range, ord) ==
  LET addresses == [i \in 1..Len(vals) |-> vals[i].address]
      missingValidators == getMissingValidators(tv, addresses)
      missingEpochs == getMissingEpochs(ta, range)
  IN IF ThrowsMissingValidators(missingValidators)
     THEN [err |-> MissingValidatorsError, detail |-> missingValidators, ret |-> {},
           stmts |-> <<SelValidators>>]
     ELSE IF ThrowsMissingEpochs(missingEpochs)
     THEN [err |-> MissingEpochsError, detail |-> missingEpochs, ret |-> {},
           stmts |-> <<SelValidators, SelActivity>>]
     ELSE LET red == ReduceActivities(SelectActivities(tv, ta, addresses, range, ord),
                                      1, vals, {})
          IN [err |-> red.err,
              detail |-> IF red.err = NoError THEN << >> ELSE <<red.who>>,
              ret |-> red.ret,
              stmts |-> <<SelValidators, SelActivity, SelActivity>>]

(***************************************************************************)
(* Inputs of the calls.                                                    *)
(***************************************************************************)
Counters(v) == IF v = 1 THEN [assigned |-> 10, missed |-> 1]
               ELSE [assigned |-> 8, missed |-> 0]

Entry(address, v) ==
  [validator |-> address, assigned |-> Counters(v).assigned,
   missed |-> Counters(v).missed]

EntryList(addrs, v) == [i \in 1..Len(addrs) |-> Entry(addrs[i], v)]

(* lists of one epoch: empty, one validator, two validators, one validator twice *)
SmallLists ==
  {EntryList(<< >>, 1), EntryList(<<"addrA", "addrA">>, 1)}
  \cup {EntryList(<<"addrA">>, v) : v \in {1, 2}}
  \cup {EntryList(<<"addrB", "addrA">>, v) : v \in {1, 2}}

(* one epoch, the first *)
SmallSubmissions == {<<[epochBlockNumber |-> 0, list |-> l]>> : l \in SmallLists}

(* every epoch 0..MaxEpoch: one validator in the first, two in the others;
   more values than one chunk holds, and a chunk that ends inside an epoch *)
BigSubmission ==
  [i \in 1..(MaxEpoch + 1) |->
     [epochBlockNumber |-> i - 1,
      list |-> IF i = 1 THEN EntryList(<<"addrA">>, 1)
               ELSE EntryList(<<"addrA", "addrB">>, 1)]]

BigSubmissions == {BigSubmission}

Submissions == SmallSubmissions \cup BigSubmissions

MakeRange(f, t, b) == [fromEpoch |-> f, toEpoch |-> t, blocksPerEpoch |-> b]

Ranges ==
  {MakeRange(0, t, b) : t \in {0, 2, MaxEpoch}, b \in 1..MaxStride}
  \cup {MakeRange(1, MaxEpoch, b) : b \in 1..MaxStride}

AddressLists ==
  {<<"addrA">>, <<"addrB">>, <<"addrA", "addrB">>, <<"addrB", "addrA">>,
   <<"addrB", "addrB">>}

WithBalance(address, balance) == [address |-> address, balance |-> balance]

ValidatorLists ==
  {<<WithBalance("addrA", 5)>>, <<WithBalance("addrB", 5)>>,
   <<WithBalance("addrA", 5), WithBalance("addrB", 7)>>,
   <<WithBalance("addrA", 0), WithBalance("addrB", 7)>>}

Score(validatorId, value) == [validatorId |-> validatorId, value |-> value]

ScoreLists ==
  {<< >>, <<Score(1, 95)>>, <<Score(1, 80)>>, <<Score(2, 95)>>,
   <<Score(1, 80), Score(2, 95)>>, <<Score(1, 95), Score(1, 80)>>}

(***************************************************************************)
(* State.  `last` records the most recent call: its arguments, the         *)
(* statement made to fail, the error thrown, the value returned and the    *)
(* statements issued.  `base` is a history variable: the store as it was   *)
(* before the first of a run of aborted storeActivities calls.             *)
(***************************************************************************)
Call(op, arg, fail, err, ret, detail, stmts, note) ==
  [op |-> op, arg |-> arg, fail |-> fail, err |-> err, ret |-> ret,
   detail |-> detail, stmts |-> stmts, note |-> note]

NoNote == [again |-> FALSE, stale |-> FALSE]

NoCall == Call("none", << >>, NoFail, NoError, << >>, << >>, << >>, NoNote)

NoBase == [set |-> FALSE, tv |-> {}, ta |-> {}, cache |-> {}, tries |-> 0]

NoLatest == [ok |-> TRUE, rows |-> {}]

Procs == {1, 2}

Idle == [p \in Procs |-> "idle"]

NoLocal ==
  [p \in Procs |-> [address |-> "", validatorId |-> 0, err |-> NoError,
                    missed |-> FALSE]]

EmptyStore ==
  /\ tblValidators = {}
  /\ tblActivity = {}
  /\ tblScores = {}
  /\ validators = {}

Init ==
  /\ EmptyStore
  /\ last = NoCall
  /\ base = NoBase
  /\ latest = NoLatest
  /\ pc = Idle
  /\ local = NoLocal

(* an injected failure is part of a call only if the call reaches it *)
Fired(fail, err) == fail = NoFail \/ err = StoreError

(* the statements of storeActivities(activities): a lookup, and then an
   insert, can only be issued at the first value that names an address *)
ActivityFailures(activities) ==
  LET entries == Flatten(activities)
      firsts == {n \in 1..Len(entries) :
                   \A m \in 1..(n - 1) : entries[m].validator # entries[n].validator}
  IN {NoFail, FailAt("delete", 0)}
     \cup {FailAt(at, n) : at \in {"select", "insert"}, n \in firsts}
     \cup {FailAt("insertChunk", k) :
             k \in 1..((Len(entries) + ChunkSize - 1) \div ChunkSize)}

(* one call of storeActivities, start to end *)
CallStoreActivities(activities, fail) ==
  LET r == storeActivities(tblValidators, tblActivity, validators, activities, fail)
  IN /\ Fired(fail, r.err)
     /\ tblValidators' = r.tv
     /\ tblActivity' = r.ta
     /\ validators' = r.cache
     /\ UNCHANGED tblScores
     /\ last' = Call("storeActivities", activities, fail, r.err, << >>, << >>, r.stmts,
                     [again |-> /\ last.op = "storeActivities"
                                /\ last.err = NoError
                                /\ last.arg = activities,
                      stale |-> \E x \in tblActivity :
                                  /\ x.epochBlockNumber \in Range(Keys(activities))
                                  /\ x \notin r.ta])

StoreActivities ==
  \E activities \in Submissions :
    \E fail \in ActivityFailures(activities) :
      /\ CallStoreActivities(activities, fail)
      /\ UNCHANGED <<base, latest, pc, local>>

StoreValidator ==
  \E address \in Addresses, f \in {"none", "select", "insert"} :
    LET r == storeValidator(tblValidators, validators, address, f)
    IN /\ Fired(FailAt(f, 0), r.err)
       /\ tblValidators' = r.tv
       /\ validators' = r.cache
       /\ UNCHANGED <<tblActivity, tblScores, base, latest, pc, local>>
       /\ last' = Call("storeValidator", address, FailAt(f, 0), r.err, r.id, << >>, r.stmts, NoNote)

StoreScores ==
  \E scores \in ScoreLists, at \in {"none", "delete", "insert"} :
    LET r == storeScores(tblScores, scores, FailAt(at, 0))
    IN /\ Fired(FailAt(at, 0), r.err)
       /\ tblScores' = r.ts
       /\ last' = Call("storeScores", scores, FailAt(at, 0), r.err, << >>, << >>,
                       r.stmts,
                       [again |-> FALSE, stale |-> \E x \in tblScores : x \notin r.ts])
       /\ latest' = IF r.err # NoError THEN [latest EXCEPT !.ok = FALSE]
                     ELSE [latest EXCEPT !.rows =
                             {x \in @ : \A i \in 1..Len(scores) :
                                          x.validatorId # scores[i].validatorId}
                             \cup Range(scores)]
       /\ UNCHANGED <<tblValidators, tblActivity, validators, base, pc, local>>

GetMissingValidators ==
  \E addresses \in AddressLists :
    /\ last' = Call("getMissingValidators", addresses, NoFail, NoError,
                    getMissingValidators(tblValidators, addresses), << >>,
                    <<SelValidators>>, NoNote)
    /\ UNCHANGED <<tblValidators, tblActivity, tblScores, validators, base, latest, pc, local>>

GetMissingEpochs ==
  \E range \in Ranges :
    /\ last' = Call("getMissingEpochs", range, NoFail, NoError,
                    getMissingEpochs(tblActivity, range), << >>, <<SelActivity>>, NoNote)
    /\ UNCHANGED <<tblValidators, tblActivity, tblScores, validators, base, latest, pc, local>>

GetActivityByValidator ==
  \E vals \in ValidatorLists, range \in Ranges, ord \in {"asc", "desc"} :
    LET r == getActivityByValidator(tblValidators, tblActivity, vals, range, ord)
    IN /\ last' = Call("getActivityByValidator", <<vals, range>>, NoFail, r.err,
                       r.ret, r.detail, r.stmts, NoNote)
       /\ UNCHANGED <<tblValidators, tblActivity, tblScores, validators, base, latest, pc, local>>

(* the process restarts: the module-level Map starts empty *)
DropCache ==
  /\ validators # {}
  /\ validators' = {}
  /\ UNCHANGED <<tblValidators, tblActivity, tblScores, last, base, latest, pc, local>>

(***************************************************************************)
(* Spec: the writers of validators and activity and the gap detector, in   *)
(* any order, one call at a time.                                          *)
(***************************************************************************)
Next ==
  \/ StoreActivities
  \/ StoreValidator
  \/ GetMissingEpochs
  \/ DropCache

Spec == Init /\ [][Next]_vars

(***************************************************************************)
(* SpecRead: the three read helpers, over stores that storeActivities      *)
(* leaves behind: one call on the empty store, completed or aborted at any *)
(* statement, then possibly a second, completed call for the first epoch.  *)
(***************************************************************************)
Store(tv, ta, cache) == [tv |-> tv, ta |-> ta, cache |-> cache]

After(s, activities, fail) ==
  LET r == storeActivities(s.tv, s.ta, s.cache, activities, fail)
  IN [tv |-> r.tv, ta |-> r.ta, cache |-> r.cache, err |-> r.err]

StoresAfter(S, subs) ==
  {Store(x.tv, x.ta, x.cache) :
     x \in {y \in UNION {{After(s, a, f) : f \in ActivityFailures(a)} :
                            <<s, a>> \in S \X subs} :
              y.err \in {NoError, StoreError}}}

SeedStores ==
  LET first == StoresAfter({Store({}, {}, {})}, Submissions)
  IN first \cup StoresAfter(first, SmallSubmissions)

InitRead ==
  /\ \E s \in SeedStores :
       /\ tblValidators = s.tv
       /\ tblActivity = s.ta
       /\ validators = s.cache
  /\ tblScores = {}
  /\ last = NoCall
  /\ base = NoBase
  /\ latest = NoLatest
  /\ pc = Idle
  /\ local = NoLocal

NextRead ==
  \/ GetMissingValidators
  \/ GetMissingEpochs
  \/ GetActivityByValidator

SpecRead == InitRead /\ [][NextRead]_vars

(***************************************************************************)
(* SpecRetry: one submission, stored again after every aborted attempt     *)
(* until a call ends without an injected failure.  `base` keeps the store  *)
(* as it was before the first attempt and counts the aborted attempts      *)
(* (2 stands for two or more).                                             *)
(***************************************************************************)
Attempt ==
  \E activities \in Submissions :
    \E fail \in ActivityFailures(activities) :
      /\ \/ last.op = "none"
         \/ /\ last.op = "storeActivities"
            /\ last.err = StoreError
            /\ last.arg = activities
      /\ CallStoreActivities(activities, fail)
      /\ base' = [set |-> TRUE,
                  tv |-> IF base.set THEN base.tv ELSE tblValidators,
                  ta |-> IF base.set THEN base.ta ELSE tblActivity,
                  cache |-> IF base.set THEN base.cache ELSE validators,
                  tries |-> IF last.op = "none" THEN 0 ELSE Min(base.tries + 1, 2)]
      /\ UNCHANGED <<latest, pc, local>>

NextRetry ==
  \/ Attempt
  \/ DropCache

(* the stores the attempts start from: the empty one, and what the big
   submission leaves when it completes or is aborted at some statement *)
RetrySeeds == {Store({}, {}, {})} \cup StoresAfter({Store({}, {}, {})}, BigSubmissions)

InitRetry ==
  /\ \E s \in RetrySeeds :
       /\ tblValidators = s.tv
       /\ tblActivity = s.ta
       /\ validators = s.cache
  /\ tblScores = {}
  /\ last = NoCall
  /\ base = NoBase
  /\ latest = NoLatest
  /\ pc = Idle
  /\ local = NoLocal

SpecRetry == InitRetry /\ [][NextRetry]_vars

(***************************************************************************)
(* SpecScores: storeScores calls in any order.  `latest` keeps, for every  *)
(* validator, the score of the most recent completed call that listed it,  *)
(* and whether every call so far has completed.                            *)
(***************************************************************************)
SpecScores == Init /\ [][StoreScores]_vars

(***************************************************************************)
(* SpecRace: storeValidator calls of two callers, interleaved at their     *)
(* awaits.  A call is idle, then awaits its select ("selecting"), then     *)
(* awaits the icon and its insert ("inserting"), then has returned         *)
(* ("done") or thrown ("failed").                                          *)
(***************************************************************************)
SVStart(p) ==
  \E address \in Addresses :
    /\ pc[p] = "idle"
    /\ IF CacheHas(validators, address)
       THEN /\ pc' = [pc EXCEPT ![p] = "done"]
            /\ local' = [local EXCEPT ![p] =
                  [address |-> address, validatorId |-> CacheGet(validators, address),
                   err |-> NoError, missed |-> FALSE]]
       ELSE /\ pc' = [pc EXCEPT ![p] = "selecting"]
            /\ local' = [local EXCEPT ![p] =
                  [address |-> address, validatorId |-> 0, err |-> NoError,
                   missed |-> FALSE]]
    /\ UNCHANGED <<tblValidators, tblActivity, tblScores, validators, last, base, latest>>

(* the cache filled on a miss, with the id the insert is expected to get *)
SVSelectEager(p) ==
  /\ pc[p] = "selecting"
  /\ LET validatorId == SelectValidatorId(tblValidators, local[p].address)
     IN IF validatorId # 0
        THEN /\ validators' = CacheSet(validators, local[p].address, validatorId)
             /\ local' = [local EXCEPT ![p].validatorId = validatorId]
             /\ pc' = [pc EXCEPT ![p] = "done"]
        ELSE /\ pc' = [pc EXCEPT ![p] = "inserting"]
             /\ local' = [local EXCEPT ![p].missed = TRUE]
             /\ validators' = CacheSet(validators, local[p].address,
                                       NewValidatorId(tblValidators))
  /\ UNCHANGED <<tblValidators, tblActivity, tblScores, last, base, latest>>

SVSelect(p) ==
  /\ pc[p] = "selecting"
  /\ LET validatorId == SelectValidatorId(tblValidators, local[p].address)
     IN IF validatorId # 0
        THEN /\ validators' = CacheSet(validators, local[p].address, validatorId)
             /\ local' = [local EXCEPT ![p].validatorId = validatorId]
             /\ pc' = [pc EXCEPT ![p] = "done"]
        ELSE /\ pc' = [pc EXCEPT ![p] = "inserting"]
             /\ local' = [local EXCEPT ![p].missed = TRUE]
             /\ UNCHANGED validators
  /\ UNCHANGED <<tblValidators, tblActivity, tblScores, last, base, latest>>

SVInsert(p) ==
  /\ pc[p] = "inserting"
  /\ IF AddressTaken(tblValidators, local[p].address)
     THEN /\ pc' = [pc EXCEPT ![p] = "failed"]
          /\ local' = [local EXCEPT ![p].err = ConstraintError]
          /\ UNCHANGED <<tblValidators, validators>>
     ELSE /\ tblValidators' = InsertValidatorRow(tblValidators, local[p].address)
          /\ validators' = CacheSet(validators, local[p].address,
                                    NewValidatorId(tblValidators))
          /\ local' = [local EXCEPT ![p].validatorId = NewValidatorId(tblValidators)]
          /\ pc' = [pc EXCEPT ![p] = "done"]
  /\ UNCHANGED <<tblActivity, tblScores, last, base, latest>>

SVReturn(p) ==
  /\ pc[p] \in {"done", "failed"}
  /\ pc' = [pc EXCEPT ![p] = "idle"]
  /\ local' = [local EXCEPT ![p] = NoLocal[p]]
  /\ UNCHANGED <<tblValidators, tblActivity, tblScores, validators, last, base, latest>>

NextRace ==
  \/ \E p \in Procs : SVStart(p)
  \/ \E p \in Procs : SVSelect(p)
  \/ \E p \in Procs : SVInsert(p)
  \/ \E p \in Procs : SVReturn(p)
  \/ DropCache

SpecRace == Init /\ [][NextRace]_vars

(***************************************************************************)
(* What the claims speak of.                                               *)
(***************************************************************************)
RowsAt(ta, e) == {r \in ta : r.epochBlockNumber = e}

(* the rows a submission describes for one of its epochs, with the ids the
   validators table gives the addresses *)
RowsOf(tv, item) ==
  {[assigned |-> item.list[i].assigned, missed |-> item.list[i].missed,
    epochBlockNumber |-> item.epochBlockNumber,
    validatorId |-> SelectValidatorId(tv, item.list[i].validator)] :
      i \in 1..Len(item.list)}

Completed(op) == last.op = op /\ last.err = NoError

Boundaries(range) ==
  {e \in range.fromEpoch..range.toEpoch :
     (e - range.fromEpoch) % range.blocksPerEpoch = 0}

(* C1: storeActivities is idempotent: a second call with the same submission,
   right after a first one that completed, completes too and leaves the
   activity rows and the validator rows exactly as the first call left them. *)
C1_Idempotent ==
  [][(/\ Completed("storeActivities")
      /\ last'.op = "storeActivities"
      /\ last'.arg = last.arg
      /\ last'.fail = NoFail)
     => /\ last'.err = NoError
        /\ tblActivity' = tblActivity
        /\ tblValidators' = tblValidators]_vars

C1_Witness ==
  /\ Completed("storeActivities")
  /\ last.note.again
  /\ Len(last.arg) > 1
  /\ Cardinality(tblActivity) > ChunkSize

(* C2: after storeActivities(B) completes, the rows of every epoch that is a
   key of B are exactly the rows B lists for it, one row per listed validator
   with B's counters; no other row of that epoch survives. *)
C2_Overwrite ==
  Completed("storeActivities") =>
    \A i \in 1..Len(last.arg) :
      /\ RowsAt(tblActivity, last.arg[i].epochBlockNumber)
           = RowsOf(tblValidators, last.arg[i])
      /\ Cardinality(RowsAt(tblActivity, last.arg[i].epochBlockNumber))
           = Len(last.arg[i].list)

C2_Witness ==
  /\ Completed("storeActivities")
  /\ last.note.stale
  /\ last.arg = <<[epochBlockNumber |-> 0, list |-> EntryList(<<"addrA">>, 2)]>>
  /\ tblActivity = {[assigned |-> 8, missed |-> 0, epochBlockNumber |-> 0,
                     validatorId |-> SelectValidatorId(tblValidators, "addrA")]}

(* C3: getMissingEpochs returns, ascending and without repetition, exactly the
   boundaries fromEpoch, fromEpoch + blocksPerEpoch, ... <= toEpoch that have
   no activity row; [] exactly when every boundary has a row; and for
   fromEpoch = toEpoch either [] or [fromEpoch]. *)
C3_MissingEpochs ==
  last.op = "getMissingEpochs" =>
    LET range == last.arg
        missing == {e \in Boundaries(range) : RowsAt(tblActivity, e) = {}}
    IN /\ last.ret = SortedSeq(missing)
       /\ (last.ret = << >>) <=> (\A e \in Boundaries(range) : RowsAt(tblActivity, e) # {})
       /\ range.fromEpoch = range.toEpoch => last.ret \in {<< >>, <<range.fromEpoch>>}

C3_Witness ==
  /\ last.op = "getMissingEpochs"
  /\ last.arg = [fromEpoch |-> 0, toEpoch |-> 2, blocksPerEpoch |-> 1]
  /\ {r.epochBlockNumber : r \in tblActivity} = {0}
  /\ last.ret = <<1, 2>>

(* C8: when storeActivities(A) is aborted by a failing insert chunk, a
   getMissingEpochs that follows over a range whose boundaries include A's
   epochs reports every epoch of A whose rows were not all inserted. *)
C8_PartialIsMissing ==
  [][(/\ last.op = "storeActivities"
      /\ last.fail.at = "insertChunk"
      /\ last.err = StoreError
      /\ last'.op = "getMissingEpochs"
      /\ Range(Keys(last.arg)) \subseteq Boundaries(last'.arg))
     => \A i \in 1..Len(last.arg) :
          RowsAt(tblActivity, last.arg[i].epochBlockNumber)
             # RowsOf(tblValidators, last.arg[i])
          => last.arg[i].epochBlockNumber \in Range(last'.ret)]_vars

HasRow(address) == \E r \in tblValidators : r.address = address

RequestedAddresses == [i \in 1..Len(last.arg[1]) |-> last.arg[1][i].address]

(* C4: getActivityByValidator, asked for addresses that all have a validator
   row, fails with "Missing epochs" whenever some boundary of the range has no
   activity row, whatever the other boundaries hold, and returns no view. *)
C4_MissingEpochsThrown ==
  (/\ last.op = "getActivityByValidator"
   /\ \A a \in Range(RequestedAddresses) : HasRow(a)
   /\ \E e \in Boundaries(last.arg[2]) : RowsAt(tblActivity, e) = {})
  => /\ last.err = MissingEpochsError
     /\ last.ret = {}

C4_Witness ==
  /\ last.op = "getActivityByValidator"
  /\ last.err = MissingEpochsError
  /\ last.arg[2] = MakeRange(0, MaxEpoch, 1)
  /\ last.detail = <<0>>
  /\ \A e \in 1..MaxEpoch : RowsAt(tblActivity, e) # {}

(* C5: getActivityByValidator fails with "Missing validators", naming exactly
   the requested addresses without a validator row, whenever there is one; it
   then reads no activity row, returns no view and creates no validator. *)
C5_MissingValidatorsThrown ==
  (/\ last.op = "getActivityByValidator"
   /\ \E a \in Range(RequestedAddresses) : ~HasRow(a))
  => /\ last.err = MissingValidatorsError
     /\ Range(last.detail) = {a \in Range(RequestedAddresses) : ~HasRow(a)}
     /\ last.stmts = <<SelValidators>>
     /\ last.ret = {}

C5_Witness ==
  /\ last.op = "getActivityByValidator"
  /\ last.err = MissingValidatorsError
  /\ last.detail = <<"addrB">>
  /\ Len(RequestedAddresses) = 2
  /\ HasRow("addrA")
  /\ \E e \in Boundaries(last.arg[2]) : RowsAt(tblActivity, e) = {}

(* C6: getMissingValidators returns exactly the addresses of its input that
   have no validator row, in the order given; every input address it does not
   return has a row; the call only issues a select. *)
C6_MissingValidators ==
  last.op = "getMissingValidators" =>
    /\ \A i \in 1..Len(last.ret) : ~HasRow(last.ret[i])
    /\ \A a \in Range(last.arg) \ Range(last.ret) : HasRow(a)
    /\ last.ret = FilterSeq(last.arg, {a \in Addresses : ~HasRow(a)})
    /\ last.stmts = <<SelValidators>>

C6_Witness ==
  /\ last.op = "getMissingValidators"
  /\ last.arg = <<"addrB", "addrA">>
  /\ last.ret = <<"addrA">>

(* C7: as long as every storeScores call has completed, the scores table has
   at most one row per validatorId and holds, for every validator ever
   submitted, the value of the most recent call that listed it. *)
C7_OneScore ==
  latest.ok =>
    /\ \A x, y \in tblScores : x.validatorId = y.validatorId => x = y
    /\ tblScores = latest.rows

C7_Witness ==
  /\ latest.ok
  /\ last.op = "storeScores"
  /\ last.arg = <<Score(1, 80)>>
  /\ last.note.stale
  /\ tblScores = {Score(1, 80)}

(* the statements s, and what follows them, are how t begins *)
IsPrefix(s, t) == Len(s) <= Len(t) /\ SubSeq(t, 1, Len(s)) = s

FailureFree == storeActivities(base.tv, base.ta, base.cache, last.arg, NoFail)

(* C9: after storeActivities(A) was aborted at some statement, once or more,
   a further storeActivities(A) without failure ends as a single failure-free
   call from the first store would: with the same outcome and, when it
   completes, with exactly the same activity rows.  An aborted call stops at
   the failed statement: what it issued is the beginning of what the
   failure-free call issues, the failed statement being the last. *)
C9_RetrySafe ==
  /\ (/\ last.op = "storeActivities" /\ base.tries >= 1 /\ last.fail = NoFail)
     => /\ last.err = FailureFree.err
        /\ last.err = NoError => tblActivity = FailureFree.ta
  /\ (/\ last.op = "storeActivities" /\ base.tries = 0 /\ last.err = StoreError)
     => IsPrefix(last.stmts, FailureFree.stmts)

C9_Witness ==
  /\ Completed("storeActivities")
  /\ base.tries >= 1
  /\ Len(last.arg) > 1
  /\ Cardinality(tblActivity) > ChunkSize
  /\ base.ta # {}

Finished(p) == pc[p] \in {"done", "failed"}

(* both callers looked the address up and found no row *)
BothMissed ==
  /\ Finished(1) /\ Finished(2)
  /\ local[1].address = local[2].address
  /\ local[1].missed /\ local[2].missed

(* C10: when two storeValidator calls for the same unseen address both miss
   the cache and the lookup before either inserts, both complete without an
   error, both return the same id, and the table has exactly one row for the
   address. *)
C10_RaceResolved ==
  BothMissed =>
    /\ pc[1] = "done" /\ pc[2] = "done"
    /\ local[1].validatorId = local[2].validatorId
    /\ Cardinality({r \in tblValidators : r.address = local[1].address}) = 1

(***************************************************************************)
(* SpecWriters: two storeActivities calls on an empty store, interleaved   *)
(* at their awaits.  A call resolves its entries one by one ("resolving",  *)
(* and inside storeValidator "selecting" and "creating"), then awaits its  *)
(* delete ("deleting"), then its insert chunks one at a time               *)
(* ("inserting"), and has then returned ("done") or thrown ("failed").     *)
(***************************************************************************)
WLocal(activities, overlap) ==
  [activities |-> activities, entries |-> Flatten(activities), values |-> << >>,
   i |-> 1, chunks |-> << >>, k |-> 1, err |-> NoError, overlap |-> overlap]

NoWLocal == [p \in Procs |-> WLocal(<< >>, FALSE)]

Running(p) == pc[p] \notin {"idle", "done", "failed"}

(* values.push({ assigned, missed, epochBlockNumber, validatorId }) *)
PushValue(l, validatorId) ==
  [l EXCEPT !.values = Append(@, [assigned |-> l.entries[l.i].assigned,
                                  missed |-> l.entries[l.i].missed,
                                  epochBlockNumber |-> l.entries[l.i].epochBlockNumber,
                                  validatorId |-> validatorId]),
            !.i = @ + 1]

(* what the callers submit: the submissions above, and one for the first
   epoch that names the second validator only *)
WriterSubmissions ==
  Submissions \cup {<<[epochBlockNumber |-> 0, list |-> EntryList(<<"addrB">>, 2)]>>}

InitWriters ==
  /\ EmptyStore
  /\ last = NoCall
  /\ base = NoBase
  /\ latest = NoLatest
  /\ pc = Idle
  /\ local = NoWLocal

WStart(p) ==
  \E activities \in WriterSubmissions :
    /\ pc[p] = "idle"
    /\ pc' = [pc EXCEPT ![p] = "resolving"]
    /\ local' = [q \in Procs |->
                   IF q = p THEN WLocal(activities, \E o \in Procs \ {p} : Running(o))
                   ELSE [local[q] EXCEPT !.overlap = @ \/ Running(q)]]
    /\ UNCHANGED <<tblValidators, tblActivity, tblScores, validators, last, base, latest>>

(* the next entry of the loops: a cache hit returns at once, a miss awaits
   the select; after the last entry the delete is issued *)
WResolve(p) ==
  /\ pc[p] = "resolving"
  /\ IF local[p].i > Len(local[p].entries)
     THEN /\ pc' = [pc EXCEPT ![p] = "deleting"]
          /\ UNCHANGED local
     ELSE IF CacheHas(validators, local[p].entries[local[p].i].validator)
     THEN /\ local' = [local EXCEPT ![p] =
                 PushValue(@, CacheGet(validators, local[p].entries[local[p].i].validator))]
          /\ UNCHANGED pc
     ELSE /\ pc' = [pc EXCEPT ![p] = "selecting"]
          /\ UNCHANGED local
  /\ UNCHANGED <<tblValidators, tblActivity, tblScores, validators, last, base, latest>>

WSelect(p) ==
  /\ pc[p] = "selecting"
  /\ LET address == local[p].entries[local[p].i].validator
         validatorId == SelectValidatorId(tblValidators, address)
     IN IF validatorId # 0
        THEN /\ validators' = CacheSet(validators, address, validatorId)
             /\ local' = [local EXCEPT ![p] = PushValue(@, validatorId)]
             /\ pc' = [pc EXCEPT ![p] = "resolving"]
        ELSE /\ pc' = [pc EXCEPT ![p] = "creating"]
             /\ UNCHANGED <<validators, local>>
  /\ UNCHANGED <<tblValidators, tblActivity, tblScores, last, base, latest>>

WCreate(p) ==
  /\ pc[p] = "creating"
  /\ LET address == local[p].entries[local[p].i].validator
     IN IF AddressTaken(tblValidators, address)
        THEN /\ pc' = [pc EXCEPT ![p] = "failed"]
             /\ local' = [local EXCEPT ![p].err = ConstraintError]
             /\ UNCHANGED <<tblValidators, validators>>
        ELSE /\ tblValidators' = InsertValidatorRow(tblValidators, address)
             /\ validators' = CacheSet(validators, address, NewValidatorId(tblValidators))
             /\ local' = [local EXCEPT ![p] = PushValue(@, NewValidatorId(tblValidators))]
             /\ pc' = [pc EXCEPT ![p] = "resolving"]
  /\ UNCHANGED <<tblActivity, tblScores, last, base, latest>>

WDelete(p) ==
  /\ pc[p] = "deleting"
  /\ tblActivity' = DeleteActivityRows(tblActivity, Keys(local[p].activities))
  /\ local' = [local EXCEPT ![p].chunks = chunkArray(local[p].values, ChunkSize),
                            ![p].k = 1]
  /\ pc' = [pc EXCEPT ![p] = "inserting"]
  /\ UNCHANGED <<tblValidators, tblScores, validators, last, base, latest>>

WInsert(p) ==
  /\ pc[p] = "inserting"
  /\ IF local[p].k > Len(local[p].chunks)
     THEN /\ pc' = [pc EXCEPT ![p] = "done"]
          /\ UNCHANGED <<tblActivity, local>>
     ELSE IF ~ActivityKeysFree(tblActivity, local[p].chunks[local[p].k])
     THEN /\ pc' = [pc EXCEPT ![p] = "failed"]
          /\ local' = [local EXCEPT ![p].err = ConstraintError]
          /\ UNCHANGED tblActivity
     ELSE /\ tblActivity' = InsertActivityRows(tblActivity, local[p].chunks[local[p].k])
          /\ local' = [local EXCEPT ![p].k = @ + 1]
          /\ UNCHANGED pc
  /\ UNCHANGED <<tblValidators, tblScores, validators, last, base, latest>>

NextWriters ==
  \/ \E p \in Procs : WStart(p)
  \/ \E p \in Procs : WResolve(p)
  \/ \E p \in Procs : WSelect(p)
  \/ \E p \in Procs : WCreate(p)
  \/ \E p \in Procs : WDelete(p)
  \/ \E p \in Procs : WInsert(p)

SpecWriters == InitWriters /\ [][NextWriters]_vars

(* the submissions of both callers have the epoch e among their keys *)
BothSubmit(e) ==
  \A p \in Procs : e \in Range(Keys(local[p].activities))

ItemAt(activities, e) ==
  activities[CHOOSE i \in 1..Len(activities) : activities[i].epochBlockNumber = e]

BothWrote ==
  /\ pc[1] = "done" /\ pc[2] = "done"
  /\ local[1].overlap /\ local[2].overlap

(* C11: when two storeActivities calls that both submit epoch e overlap and
   both complete, the rows of e are exactly what one of the two submitted:
   one row per (e, validatorId) and no mixture of the two submissions. *)
C11_LastWriterWins ==
  BothWrote =>
    \A e \in Epochs :
      BothSubmit(e) =>
        /\ \A x, y \in RowsAt(tblActivity, e) : ActivityKey(x) = ActivityKey(y) => x = y
        /\ \E p \in Procs :
             RowsAt(tblActivity, e) = RowsOf(tblValidators, ItemAt(local[p].activities, e))

(* the epochs of the range at which the validator of an address has a row *)
ActiveAt(address, range) ==
  {e \in Boundaries(range) :
     \E r \in RowsAt(tblActivity, e) :
       r.validatorId = SelectValidatorId(tblValidators, address)}

RowsInRange(address, range) ==
  {r \in tblActivity : /\ r.validatorId = SelectValidatorId(tblValidators, address)
                       /\ r.epochBlockNumber >= range.fromEpoch
                       /\ r.epochBlockNumber <= range.toEpoch}

(* C12: when getActivityByValidator succeeds, it returns one view for each
   requested address that has a row in the range, and no other: the view has
   the store's id of the address, the balance the caller supplied, and the
   ascending, duplicate-free list of exactly the boundaries of the range at
   which the validator has a row. *)
C12_Views ==
  (last.op = "getActivityByValidator" /\ last.err = NoError) =>
    LET vals == last.arg[1]
        range == last.arg[2]
        active == {a \in Range(RequestedAddresses) : RowsInRange(a, range) # {}}
    IN /\ {w.address : w \in last.ret} = active
       /\ \A w \in last.ret :
            /\ w.validatorId = SelectValidatorId(tblValidators, w.address)
            /\ w.balance = FindBalance(vals, w.address)
            /\ w.activeEpochBlockNumbers = SortedSeq(ActiveAt(w.address, range))

(* C13: when every requested address has a validator row and every boundary
   of the range has an activity row, getActivityByValidator raises no
   "No balance" error, whatever balances the caller supplied for the
   requested validators; it raises it only for a validator of the rows read. *)
C13_BalanceSupplied ==
  last.op = "getActivityByValidator" =>
    /\ (/\ \A a \in Range(RequestedAddresses) : HasRow(a)
        /\ \A e \in Boundaries(last.arg[2]) : RowsAt(tblActivity, e) # {})
       => last.err = NoError
    /\ last.err = NoBalanceError
       => \A a \in Range(last.detail) : RowsInRange(a, last.arg[2]) # {}

ScoreIds(scores) == {scores[i].validatorId : i \in 1..Len(scores)}

(* C14: storeScores, for every list including the empty one and whether it
   completes or fails, leaves the score row of every validator that is not in
   the list as it was. *)
C14_ScoresFrame ==
  [][last'.op = "storeScores"
     => {r \in tblScores' : r.validatorId \notin ScoreIds(last'.arg)}
          = {r \in tblScores : r.validatorId \notin ScoreIds(last'.arg)}]_vars

(* lookups and creations of validators, then one delete, then inserts only;
   or, when the call stopped early, lookups and creations only *)
WriteOrdered(stmts) ==
  \/ \A i \in 1..Len(stmts) : stmts[i] \in {SelValidators, InsValidators}
  \/ \E d \in 1..Len(stmts) :
       /\ stmts[d] = DelActivity
       /\ \A i \in 1..(d - 1) : stmts[i] \in {SelValidators, InsValidators}
       /\ \A i \in (d + 1)..Len(stmts) : stmts[i] = InsActivity

Referenced(activities) ==
  {Flatten(activities)[i].validator : i \in 1..Len(Flatten(activities))}

(* C15: a storeActivities call resolves every address of its submission
   before it issues the delete, issues the delete before its first insert and
   nothing but inserts after it; every activity row names an existing
   validator row; and a call whose identity resolution fails has deleted and
   inserted no activity row. *)
C15_WriteOrder ==
  [][last'.op = "storeActivities"
     => /\ WriteOrdered(last'.stmts)
        /\ DelActivity \in Range(last'.stmts)
           => \A a \in Referenced(last'.arg) : AddressTaken(tblValidators', a)
        /\ DelActivity \notin Range(last'.stmts) => tblActivity' = tblActivity
        /\ \A r \in tblActivity' : \E v \in tblValidators' : v.id = r.validatorId]_vars

C15_Witness ==
  /\ last.op = "storeActivities"
  /\ last.err = StoreError
  /\ last.fail.at \in {"select", "insert"}
  /\ last.arg[1].epochBlockNumber = 0
  /\ RowsAt(tblActivity, 0) # {}

(* C16: in every state of interleaved storeValidator calls, every entry of
   the cache names a validator row of the store, address and id, and the
   store has no row for that address with another id: a cache hit returns
   the store's id. *)
C16_CacheSound ==
  \A e \in validators :
    /\ \E r \in tblValidators : r.address = e.address /\ r.id = e.id
    /\ \A r \in tblValidators : r.address = e.address => r.id = e.id

C16_Witness ==
  /\ Cardinality(validators) = 2
  /\ \E p \in Procs : pc[p] = "failed"
  /\ \E p \in Procs : pc[p] = "done" /\ ~local[p].missed

(***************************************************************************)
(* SpecIdentity: the three writers, one call at a time and in any order,   *)
(* with cache drops in between; the activity submissions are those of the  *)
(* first epoch.                                                            *)
(***************************************************************************)
StoreSmallActivities ==
  \E activities \in SmallSubmissions :
    \E fail \in ActivityFailures(activities) :
      /\ CallStoreActivities(activities, fail)
      /\ UNCHANGED <<base, latest, pc, local>>

NextIdentity ==
  \/ StoreValidator
  \/ StoreSmallActivities
  \/ StoreScores
  \/ DropCache

SpecIdentity == Init /\ [][NextIdentity]_vars

(* C17: whatever the writers do, the store has at most one validator row per
   address, every validator row stays as it is, and a storeValidator call
   that returns gives the id of the row the address already had, or of the
   row it has just created. *)
C17_StableIdentity ==
  [][/\ \A x, y \in tblValidators' : x.address = y.address => x = y
     /\ tblValidators \subseteq tblValidators'
     /\ (last'.op = "storeValidator" /\ last'.err = NoError)
        => /\ last'.ret = SelectValidatorId(tblValidators', last'.arg)
           /\ last'.ret # 0
           /\ HasRow(last'.arg) => last'.ret = SelectValidatorId(tblValidators, last'.arg)]_vars

C17_Witness ==
  /\ Completed("storeValidator")
  /\ last.arg = "addrA"
  /\ last.ret = 2
  /\ last.stmts = <<SelValidators>>
  /\ tblScores # {}
  /\ tblActivity # {}

(* the step is a cache drop, not a call *)
CacheDropped == validators # {} /\ validators' = {}

(* the same call on the same store with an empty cache *)
Cold(address) == storeValidator(tblValidators, {}, address, "none")

(* C18: a storeValidator call returns the id, and leaves the validators
   table, that the same call on the same store with an emptied cache gives;
   so runs that differ only in where the cache is emptied return the same ids
   and build the same store.  A cache hit issues no statement; a miss on an
   address that has a row issues the select only. *)
C18_CacheDroppable ==
  [][(last'.op = "storeValidator" /\ last'.fail = NoFail /\ ~CacheDropped)
     => /\ last'.err = Cold(last'.arg).err
        /\ last'.ret = Cold(last'.arg).id
        /\ tblValidators' = Cold(last'.arg).tv
        /\ CacheHas(validators, last'.arg)
           => last'.stmts = << >> /\ tblValidators' = tblValidators
        /\ (~CacheHas(validators, last'.arg) /\ HasRow(last'.arg))
           => last'.stmts = <<SelValidators>> /\ tblValidators' = tblValidators]_vars

C18_Witness ==
  /\ Completed("storeValidator")
  /\ last.stmts = <<SelValidators>>
  /\ Cardinality(tblValidators) = 2
  /\ Cardinality(validators) = 1

(* C19: after storeActivities(A) has completed, for every A including one
   that maps an epoch to an empty list, the getMissingEpochs that follows
   reports no epoch that is a key of A. *)
C19_GapClosed ==
  [][(Completed("storeActivities") /\ last'.op = "getMissingEpochs")
     => \A e \in Range(Keys(last.arg)) : e \notin Range(last'.ret)]_vars

(***************************************************************************)
(* SpecFrame: storeActivities calls, completed or aborted, on stores that  *)
(* hold activity of every epoch and possibly a score.                      *)
(***************************************************************************)
InitFrame ==
  /\ \E s \in RetrySeeds :
       /\ tblValidators = s.tv
       /\ tblActivity = s.ta
       /\ validators = s.cache
  /\ tblScores \in {{}, {Score(1, 95)}}
  /\ last = NoCall
  /\ base = NoBase
  /\ latest = NoLatest
  /\ pc = Idle
  /\ local = NoLocal

NextFrame ==
  \/ StoreActivities
  \/ DropCache

SpecFrame == InitFrame /\ [][NextFrame]_vars

OutsideKeys(ta, activities) ==
  {r \in ta : r.epochBlockNumber \notin Range(Keys(activities))}

(* C20: a storeActivities(A) call, completed or aborted at any statement,
   leaves the activity rows of every epoch that is not a key of A as they
   were, leaves the scores as they were, and changes the validators table
   only by adding rows for addresses of A that had none. *)
C20_ActivitiesFrame ==
  [][last'.op = "storeActivities"
     => /\ OutsideKeys(tblActivity', last'.arg) = OutsideKeys(tblActivity, last'.arg)
        /\ tblScores' = tblScores
        /\ tblValidators \subseteq tblValidators'
        /\ \A r \in tblValidators' \ tblValidators :
             /\ r.address \in Referenced(last'.arg)
             /\ ~AddressTaken(tblValidators, r.address)]_vars

C20_Witness ==
  /\ last.op = "storeActivities"
  /\ last.err = StoreError
  /\ last.fail.at = "insertChunk"
  /\ last.note.stale
  /\ Len(last.arg) = 1
  /\ RowsAt(tblActivity, 0) = {}
  /\ RowsAt(tblActivity, MaxEpoch) # {}
  /\ tblScores # {}

====
